---- MODULE Spec2Model ----
(* Model of x/environment.py: the Catcher environment.                      *)
(* One Catcher instance; its caller constructs it, then calls update,        *)
(* reset, observe and observe_image in any order.                            *)
EXTENDS Integers, Sequences, FiniteSets, TLC

VARIABLES
    grid_size,      \* self.grid_size
    output_type,    \* self.output_type
    output_shape,   \* self.output_shape, or Unset
    state,          \* self._state[0] = <<fruit_row, fruit_col, basket_col>>
    result,         \* what the caller's last call did and returned
    prev,           \* self._state[0] as it was before the caller's last call
    drawn,          \* <<n, m>> drawn by the last reset()
    stays,          \* number of update(1) calls since the last reset() if
                    \* every update since then was update(1), else -1
    steps,          \* number of update calls since the last reset()
    observed        \* outcomes of the observe() calls made since the last
                    \* update or reset, the latest two of them

vars == <<grid_size, output_type, output_shape, state, result,
          prev, drawn, stays, steps, observed>>

config == <<grid_size, output_type, output_shape>>

(* ---------------------------------------------------------------- bounds *)
\* Largest grid_size constructed.
MaxGrid == 5
\* How many update calls past the bottom row the caller is followed for.
MaxOverrun == 2

\* np.random.randint(1, grid_size-2) raises ValueError for grid_size < 4,
\* so no instance exists below MinGrid.
MinGrid == 4
GridSizes == MinGrid..MaxGrid

\* Action values the caller passes: 0 left, 1 stay, 2 right; -1 and 3 are
\* not listed by the code.
Actions == -1..3

\* output_shape as stored when __init__ leaves the attribute unset.
Unset == <<-1>>
\* The output_shape=None argument.
None == <<0>>

(* --------------------------------------------------------------- helpers *)
Min(a, b) == IF a < b THEN a ELSE b
Max(a, b) == IF a > b THEN a ELSE b
Abs(a) == IF a < 0 THEN 0 - a ELSE a

RECURSIVE Product(_)
Product(s) == IF s = <<>> THEN 1 ELSE Head(s) * Product(Tail(s))

\* Variant: high taken as inclusive (random.randint's convention).
randint_closed(low, high) == low..high

\* np.random.randint(low, high): low inclusive, high exclusive.
randint(low, high) == low..(high - 1)

\* Python integer index into an axis of length n; negative counts from the end.
IndexOK(i, n) == i >= 0 - n /\ i < n
NormIndex(i, n) == IF i < 0 THEN i + n ELSE i

\* Indices selected by the slice start:stop on an axis of length n.
SliceIndices(start, stop, n) ==
    LET lo == IF start < 0 THEN Max(start + n, 0) ELSE Min(start, n)
        hi == IF stop < 0 THEN Max(stop + n, 0) ELSE Min(stop, n)
    IN  lo..(hi - 1)

(* ------------------------------------------------------- Catcher methods *)
\* Catcher.__init__: the output_shape attribute after construction.
init_output_shape(g, shape_arg, otype) ==
    IF shape_arg = None
    THEN IF otype = "pixels" THEN <<g * g>>
         ELSE IF otype = "position" THEN <<3>>
         ELSE Unset
    ELSE Unset

\* Variant: only 2 moves right, an unlisted value stays.
action_delta_strict(action) ==
    IF action = 0 THEN -1 ELSE IF action = 2 THEN 1 ELSE 0

\* Variant: the 'stay' branch is missing.
action_delta_nostay(action) ==
    IF action = 0 THEN -1 ELSE 1

\* action -> signed basket move
action_delta(action) ==
    IF action = 0 THEN -1 ELSE IF action = 1 THEN 0 ELSE 1

\* Variant: the move is not added to the basket column.
new_basket_stuck(basket, action, g) ==
    Min(Max(1, basket), g - 1)

\* Variant: ceiling one column further right.
new_basket_wide(basket, action, g) ==
    Min(Max(1, basket + action_delta(action)), g)

new_basket(basket, action, g) ==
    Min(Max(1, basket + action_delta(action)), g - 1)

\* Variant: the fruit column moves with the basket.
update_state_drift(s, action, g) ==
    <<s[1] + 1, s[2] + action_delta(action), new_basket(s[3], action, g)>>

\* Catcher._update_state: the triple stored in _state[0] afterwards.
update_state(s, action, g) ==
    <<s[1] + 1, s[2], new_basket(s[3], action, g)>>

\* Variant: bottom row taken to be grid_size.
reward_late(s, g) ==
    IF s[1] = g
    THEN IF Abs(s[2] - s[3]) <= 1 THEN 1 ELSE -1
    ELSE 0

\* Catcher.reward
reward(s, g) ==
    IF s[1] = g - 1
    THEN IF Abs(s[2] - s[3]) <= 1 THEN 1 ELSE -1
    ELSE 0

\* Variant: bottom row taken to be grid_size.
is_over_late(s, g) == s[1] = g

\* Catcher.is_over
is_over(s, g) == s[1] = g - 1

\* Variant: row and column written in the other order.
reset_states_swapped(g) ==
    { <<n, 0, m>> : n \in randint(0, g - 1), m \in randint(1, g - 2) }

\* Catcher.reset: the triples it can store.  n and m are length-1 arrays that
\* np.asarray([0, n, m]) takes as scalars, giving _state the shape (1, 3).
reset_states(g) ==
    { <<0, n, m>> : n \in randint(0, g - 1), m \in randint(1, g - 2) }

\* Catcher._draw_state: IndexError when the fruit cell is off the canvas.
draw_ok(s, g) == IndexOK(s[1], g) /\ IndexOK(s[2], g)

draw_state(s, g) ==
    LET fruit == <<NormIndex(s[1], g), NormIndex(s[2], g)>>
        strip == { <<NormIndex(-1, g), c>> : c \in SliceIndices(s[3] - 1, s[3] + 2, g) }
    IN  [ cell \in (0..(g - 1)) \X (0..(g - 1)) |->
            IF cell = fruit \/ cell \in strip THEN 1 ELSE 0 ]

\* canvas.reshape(shape): row-major data under a new shape.
flatten(canvas, g) ==
    [ i \in 1..(g * g) |-> canvas[<<(i - 1) \div g, (i - 1) % g>>] ]

reshape_ok(shape, g) == Product(shape) = g * g

NoObs == [shape |-> <<>>, data |-> <<>>]

\* Catcher.observe_image: outcome and value.
observe_image_status(s, g) ==
    IF ~draw_ok(s, g) THEN "IndexError" ELSE "ok"

observe_image(s, g) ==
    IF observe_image_status(s, g) = "ok"
    THEN [shape |-> <<1, 1, g, g>>, data |-> flatten(draw_state(s, g), g)]
    ELSE NoObs

\* Catcher.observe: outcome and value.
observe_status(s, g, otype, oshape) ==
    IF otype = "pixels"
    THEN IF ~draw_ok(s, g) THEN "IndexError"
         ELSE IF oshape = Unset THEN "AttributeError"
         ELSE IF ~reshape_ok(<<1>> \o oshape, g) THEN "ValueError"
         ELSE "ok"
    ELSE IF otype = "position" THEN "ok"
    ELSE "UnboundLocalError"

observe(s, g, otype, oshape) ==
    IF observe_status(s, g, otype, oshape) # "ok" THEN NoObs
    ELSE IF otype = "pixels"
         THEN [shape |-> <<1>> \o oshape, data |-> flatten(draw_state(s, g), g)]
         ELSE [shape |-> <<3>>, data |-> s]

(* ----------------------------------------------------------------- state *)
Result(op, action, status, obs, rew, over) ==
    [op |-> op, action |-> action, status |-> status,
     obs |-> obs, reward |-> rew, over |-> over]

\* Constructor arguments (output_type, output_shape) under which observe()
\* is defined.
Configs(g) ==
    { <<"pixels", None>>, <<"position", None>>, <<"position", <<3>>>> }

\* Every kind of constructor argument, including an unlisted output_type
\* and an explicit output_shape in 'pixels' mode.
AnyConfigs(g) ==
    Configs(g) \cup { <<"pixels", <<g, g>>>>, <<"other", None>>, <<"other", <<3>>>> }

\* State after Catcher(grid_size, output_shape, output_type) returns: the
\* constructor stores output_shape only when the argument is None.
Constructed(any) ==
    \E g \in GridSizes :
      \E c \in (IF any THEN AnyConfigs(g) ELSE Configs(g)), s \in reset_states(g) :
        /\ grid_size = g
        /\ output_type = c[1]
        /\ output_shape = init_output_shape(g, c[2], c[1])
        /\ state = s
        /\ result = Result("init", 1, "ok", NoObs, 0, FALSE)
        /\ prev = s
        /\ drawn = <<s[2], s[3]>>
        /\ stays = 0
        /\ steps = 0
        /\ observed = <<>>

Init == Constructed(FALSE)

InitAnyConfig == Constructed(TRUE)

(* --------------------------------------------------------------- actions *)
\* Catcher.reset
Reset ==
    /\ \E s \in reset_states(grid_size) :
         /\ state' = s
         /\ drawn' = <<s[2], s[3]>>
    /\ prev' = state
    /\ stays' = 0
    /\ steps' = 0
    /\ observed' = <<>>
    /\ result' = Result("reset", 1, "ok", NoObs, 0, FALSE)
    /\ UNCHANGED config

\* Catcher.update(action), lines 134-136, on the triple s2 that
\* _update_state has stored: reward and is_over are read from s2, observe()
\* runs last and may raise.
update_return(s2, action, g, otype, oshape) ==
    LET st == observe_status(s2, g, otype, oshape)
    IN  IF st = "ok"
        THEN Result("update", action, "ok", observe(s2, g, otype, oshape),
                    reward(s2, g), is_over(s2, g))
        ELSE Result("update", action, st, NoObs, 0, FALSE)

\* Variant: reward, flag and observation are read before _update_state runs.
Update_stale(action) ==
    /\ state[1] < grid_size - 1 + MaxOverrun
    /\ state' = update_state(state, action, grid_size)
    /\ result' = update_return(state, action, grid_size, output_type, output_shape)
    /\ prev' = state
    /\ stays' = IF stays >= 0 /\ action = 1 THEN stays + 1 ELSE -1
    /\ steps' = steps + 1
    /\ observed' = <<>>
    /\ UNCHANGED <<config, drawn>>

\* Variant: the fruit column is drawn again on every update.
Update_jitter(action) ==
    /\ state[1] < grid_size - 1 + MaxOverrun
    /\ \E n \in randint(0, grid_size - 1) :
         state' = <<state[1] + 1, n, new_basket(state[3], action, grid_size)>>
    /\ result' = update_return(state', action, grid_size, output_type, output_shape)
    /\ prev' = state
    /\ stays' = IF stays >= 0 /\ action = 1 THEN stays + 1 ELSE -1
    /\ steps' = steps + 1
    /\ observed' = <<>>
    /\ UNCHANGED <<config, drawn>>

\* Catcher.update(action)
Update(action) ==
    /\ state[1] < grid_size - 1 + MaxOverrun
    /\ state' = update_state(state, action, grid_size)
    /\ result' = update_return(state', action, grid_size, output_type, output_shape)
    /\ prev' = state
    /\ stays' = IF stays >= 0 /\ action = 1 THEN stays + 1 ELSE -1
    /\ steps' = steps + 1
    /\ observed' = <<>>
    /\ UNCHANGED <<config, drawn>>

\* The latest two of the outcomes of observe().
Latest2(seq) == IF Len(seq) > 2 THEN Tail(seq) ELSE seq

\* Variant: observe() also advances the fruit one row.
Observe_stepping ==
    /\ result' = Result("observe", 1,
                        observe_status(state, grid_size, output_type, output_shape),
                        observe(state, grid_size, output_type, output_shape),
                        0, FALSE)
    /\ observed' = Latest2(Append(observed, <<result'.status, result'.obs>>))
    /\ prev' = state
    /\ state' = IF state[1] < grid_size - 1 + MaxOverrun
                THEN update_state(state, 1, grid_size) ELSE state
    /\ UNCHANGED <<config, drawn, stays, steps>>

\* Catcher.observe
Observe ==
    /\ result' = Result("observe", 1,
                        observe_status(state, grid_size, output_type, output_shape),
                        observe(state, grid_size, output_type, output_shape),
                        0, FALSE)
    /\ observed' = Latest2(Append(observed, <<result'.status, result'.obs>>))
    /\ prev' = state
    /\ UNCHANGED <<config, state, drawn, stays, steps>>

\* Catcher.observe_image
ObserveImage ==
    /\ result' = Result("observe_image", 1,
                        observe_image_status(state, grid_size),
                        observe_image(state, grid_size), 0, FALSE)
    /\ prev' = state
    /\ UNCHANGED <<config, state, drawn, stays, steps, observed>>

\* Catcher.reward() called by the caller
RewardCall ==
    /\ result' = Result("reward", 1, "ok", NoObs, reward(state, grid_size), FALSE)
    /\ prev' = state
    /\ UNCHANGED <<config, state, drawn, stays, steps, observed>>

\* Variant: reading is_over in a terminal state starts the next episode.
IsOverCall_autoreset ==
    /\ result' = Result("is_over", 1, "ok", NoObs, 0, is_over(state, grid_size))
    /\ prev' = state
    /\ IF is_over(state, grid_size)
       THEN state' \in reset_states(grid_size)
       ELSE state' = state
    /\ UNCHANGED <<config, drawn, stays, steps, observed>>

\* Catcher.is_over read by the caller
IsOverCall ==
    /\ result' = Result("is_over", 1, "ok", NoObs, 0, is_over(state, grid_size))
    /\ prev' = state
    /\ UNCHANGED <<config, state, drawn, stays, steps, observed>>

\* Catcher.state read by the caller: the (1, 3) array
StateCall ==
    /\ result' = Result("state", 1, "ok",
                        [shape |-> <<1, 3>>, data |-> state], 0, FALSE)
    /\ prev' = state
    /\ UNCHANGED <<config, state, drawn, stays, steps, observed>>

\* Catcher.description: the format string's text followed by grid_size
description(g) == <<"Catch game with grid size ", g>>

DescriptionCall ==
    /\ result' = Result("description", 1, "ok",
                        [shape |-> <<>>, data |-> description(grid_size)], 0, FALSE)
    /\ prev' = state
    /\ UNCHANGED <<config, state, drawn, stays, steps, observed>>

UpdateAny == \E action \in Actions : Update(action)

Next ==
    \/ Reset
    \/ UpdateAny
    \/ Observe
    \/ ObserveImage
    \/ RewardCall
    \/ IsOverCall
    \/ StateCall
    \/ DescriptionCall

Spec == Init /\ [][Next]_vars

SpecAnyConfig == InitAnyConfig /\ [][Next]_vars

\* A caller that only drives episodes: update and reset, any constructor
\* arguments.
NextEpisodes == Reset \/ UpdateAny

SpecEpisodes == InitAnyConfig /\ [][NextEpisodes]_vars

\* The caller's loop: update with any action until is_over is true, then
\* reset() for a new episode.  The loop is sequential code that keeps
\* running, so its step is weakly fair.
CallerUpdate == ~is_over(state, grid_size) /\ UpdateAny

CallerReset == is_over(state, grid_size) /\ Reset

CallerNext == CallerUpdate \/ CallerReset

SpecCaller == Init /\ [][CallerNext]_vars /\ WF_vars(CallerNext)

(* ---------------------------------------------------------------- claims *)
fruit_row == state[1]
fruit_col == state[2]
basket_col == state[3]
Updated == result.op = "update"
Fresh == result.op \in {"init", "reset"}

\* C1: once the Catcher is terminal, no update leaves the terminal state:
\* is_over is still true after an update made in a terminal state.
C1_TerminalAbsorbing ==
    (Updated /\ prev[1] = grid_size - 1) => is_over(state, grid_size)

\* C2: in every reachable state 0 <= fruit_row <= grid_size-1.
C2_FruitRowInGrid ==
    fruit_row >= 0 /\ fruit_row <= grid_size - 1

\* C3: reward() is +1 on the bottom row with |fruit_col - basket_col| <= 1,
\* -1 on the bottom row otherwise, 0 off the bottom row; so a nonzero reward
\* implies is_over in the same state, also for the pair update returns.
C3_RewardThreeValued ==
    LET r == reward(state, grid_size)
        near == (fruit_col - basket_col) \in {-1, 0, 1}
    IN  /\ (fruit_row = grid_size - 1 /\ near) => r = 1
        /\ (fruit_row = grid_size - 1 /\ ~near) => r = -1
        /\ fruit_row # grid_size - 1 => r = 0
        /\ r # 0 => is_over(state, grid_size)
        /\ (Updated /\ result.status = "ok" /\ result.reward # 0) => result.over

C3_Witness ==
    /\ Updated /\ result.status = "ok"
    /\ result.reward = -1 /\ result.over
    /\ fruit_col - basket_col > 1

\* C4: update(action), action in {0,1,2}, increases fruit_row by exactly 1
\* and leaves fruit_col unchanged.
C4_UpdateMovesFruitDown ==
    (Updated /\ result.action \in {0, 1, 2}) =>
        (fruit_row = prev[1] + 1 /\ fruit_col = prev[2])

C4_Witness ==
    /\ Updated /\ result.action = 0
    /\ prev[1] = grid_size - 2 /\ fruit_row = grid_size - 1
    /\ basket_col # prev[3]

\* C5: after every update the basket column is in [1, grid_size-1] and equals
\* clamp(old basket + delta, 1, grid_size-1) for a delta in {-1, 0, +1}.
C5_BasketClamped ==
    Updated =>
        /\ basket_col >= 1 /\ basket_col <= grid_size - 1
        /\ \E delta \in {-1, 0, 1} :
             LET x == prev[3] + delta
             IN  basket_col = IF x < 1 THEN 1
                              ELSE IF x > grid_size - 1 THEN grid_size - 1
                              ELSE x

C5_Witness ==
    /\ Updated /\ result.action = 2
    /\ prev[3] = grid_size - 1 /\ basket_col = grid_size - 1

\* C6: in every reachable state basket_col is in [1, grid_size-2].
C6_BasketInsideGrid ==
    basket_col >= 1 /\ basket_col <= grid_size - 2

\* C7: immediately after reset() or construction, whatever the prior state,
\* fruit_row = 0 and is_over is false.
C7_ResetStartsEpisode ==
    Fresh => (fruit_row = 0 /\ ~is_over(state, grid_size))

C7_Witness ==
    /\ result.op = "reset"
    /\ prev[1] > grid_size - 1
    /\ fruit_row = 0

\* C8: a state produced by reset() has fruit_col in [0, grid_size-2] and
\* basket_col in [1, grid_size-3], and in every state reset() can produce
\* every pair of values of those two ranges.
C8_ResetRanges ==
    /\ Fresh => /\ fruit_col \in 0..(grid_size - 2)
                /\ basket_col \in 1..(grid_size - 3)
    /\ \A n \in 0..(grid_size - 2), m \in 1..(grid_size - 3) :
         ENABLED (Reset /\ state' = <<0, n, m>>)

C8_Witness ==
    /\ result.op = "reset"
    /\ prev[1] = grid_size - 1 /\ prev[3] = grid_size - 1
    /\ fruit_col = grid_size - 2 /\ basket_col = grid_size - 3

\* C9: after reset() with grid_size = N, N-1 calls of update(1): the basket
\* column stays the one drawn; calls 1..N-2 return reward 0 and is_over
\* false; call N-1 returns is_over true and reward +1 if
\* |fruit_col - basket_col| <= 1 for the drawn values, else -1.
C9_StayEpisode ==
    (Updated /\ stays >= 1 /\ stays <= grid_size - 1) =>
        /\ result.status = "ok"
        /\ basket_col = drawn[2]
        /\ stays <= grid_size - 2 => (result.reward = 0 /\ ~result.over)
        /\ stays = grid_size - 1 =>
             /\ result.over
             /\ result.reward =
                  IF (drawn[1] - drawn[2]) \in {-1, 0, 1} THEN 1 ELSE -1

C9_Witness ==
    /\ Updated /\ stays = grid_size - 1
    /\ result.over /\ result.reward = 1
    /\ drawn = <<2, 2>>

\* C10: in every reachable state the pixel rendering is a grid_size x
\* grid_size canvas whose cells set to 1 are exactly (fruit_row, fruit_col),
\* (grid_size-1, basket_col-1), (grid_size-1, basket_col) and
\* (grid_size-1, basket_col+1); every other cell is 0.
C10_PixelRendering ==
    LET cells == (0..(grid_size - 1)) \X (0..(grid_size - 1))
        ones == { <<fruit_row, fruit_col>>,
                  <<grid_size - 1, basket_col - 1>>,
                  <<grid_size - 1, basket_col>>,
                  <<grid_size - 1, basket_col + 1>> }
        canvas == draw_state(state, grid_size)
    IN  /\ draw_ok(state, grid_size)
        /\ ones \subseteq cells
        /\ DOMAIN canvas = cells
        /\ \A cell \in cells : canvas[cell] = IF cell \in ones THEN 1 ELSE 0

\* The output_shape attributes an instance of this grid size and output type
\* can have after construction.
ShapesOf(g, otype) ==
    { init_output_shape(g, c[2], c[1]) : c \in { d \in AnyConfigs(g) : d[1] = otype } }

NextTriples ==
    { <<fruit_row + 1, c, b>> : c \in 0..(grid_size - 1),
                                b \in (basket_col - 1)..(basket_col + 1) }

C12_ObserveIdempotent ==
    Len(observed) = 2 =>
        /\ observed[1][1] = observed[2][1]
        /\ observed[1][2] = observed[2][2]

C12_Witness ==
    /\ Len(observed) = 2
    /\ output_type = "pixels"
    /\ observed[1][1] = "ok" /\ observed[2][1] = "ok"
    /\ observed[2][2].shape = <<1, grid_size * grid_size>>
    /\ result.op # "observe"

\* C13: construction with an output_type that is neither 'pixels' nor
\* 'position' and no explicit output_shape fails, so no constructed
\* instance has such an output_type with output_shape left undefined.
C13_InvalidTypeRejected ==
    output_type \notin {"pixels", "position"} => output_shape # Unset

\* C14: update moves the basket by -1 for action 0, 0 for action 1 and +1
\* for every other value (then clamps); an update with an action outside
\* {0,1} ends in the state, and returns or raises, exactly what update(2)
\* from the same state does.
C14_ActionMapping ==
    Updated =>
        LET delta == CASE result.action = 0 -> -1
                       [] result.action = 1 -> 0
                       [] OTHER -> 1
            x == prev[3] + delta
            as2 == update_state(prev, 2, grid_size)
            ret2 == update_return(as2, 2, grid_size, output_type, output_shape)
        IN  /\ basket_col = IF x < 1 THEN 1
                             ELSE IF x > grid_size - 1 THEN grid_size - 1
                             ELSE x
            /\ result.action \notin {0, 1} =>
                 /\ state = as2
                 /\ result = [ret2 EXCEPT !.action = result.action]

C14_Witness ==
    /\ Updated /\ result.action = -1
    /\ result.status = "ok"
    /\ basket_col = prev[3] + 1

\* C15: the triple update returns is computed from the state after the
\* transition: its reward equals reward(), its flag is_over and its
\* observation observe(), each evaluated on the new state.
C15_ReturnFromNewState ==
    (Updated /\ result.status = "ok") =>
        /\ result.reward = reward(state, grid_size)
        /\ result.over = is_over(state, grid_size)
        /\ observe_status(state, grid_size, output_type, output_shape) = "ok"
        /\ result.obs = observe(state, grid_size, output_type, output_shape)

C15_Witness ==
    /\ Updated /\ result.status = "ok"
    /\ output_type = "pixels"
    /\ result.over /\ ~is_over(prev, grid_size)
    /\ result.reward = 1 /\ reward(prev, grid_size) = 0
    /\ basket_col # prev[3]

\* C16: after reset(), whatever the actions, is_over is false after each of
\* the first grid_size-2 update calls and true after the (grid_size-1)-th,
\* so a caller that keeps calling update eventually sees is_over.
C16_EpisodeLength ==
    /\ [](Updated =>
            /\ result.status = "ok"
            /\ (steps >= 1 /\ steps <= grid_size - 2) =>
                   (~result.over /\ ~is_over(state, grid_size))
            /\ steps = grid_size - 1 =>
                   (result.over /\ is_over(state, grid_size))
            /\ steps <= grid_size - 1)
    /\ (Fresh ~> (Updated /\ result.over /\ steps = grid_size - 1))

C16_Witness ==
    /\ Updated /\ result.over
    /\ steps = grid_size - 1
    /\ stays = -1
    /\ result.reward = -1

Queries == {"reward", "is_over", "observe", "observe_image", "state", "description"}

\* C17: the stored triple changes only in update and reset, the
\* configuration (grid_size, output_type, output_shape) never changes after
\* construction, and reward(), is_over, observe(), observe_image(), state
\* and description leave all of them unchanged.
C17_Frame ==
    [][ /\ config' = config
        /\ state' # state => result'.op \in {"update", "reset"}
        /\ result'.op \in Queries => state' = state ]_vars

C17_Witness ==
    /\ result.op = "is_over" /\ result.over
    /\ state = prev
    /\ fruit_row = grid_size - 1

\* Some sequence of n update calls with actions in {0,1,2}, made from the
\* triple s, has its last call return reward +1.
RECURSIVE CanWin(_, _)
CanWin(s, n) ==
    \E action \in {0, 1, 2} :
        LET s2 == update_state(s, action, grid_size)
            ret == update_return(s2, action, grid_size, output_type, output_shape)
        IN  IF n = 1
            THEN ret.status = "ok" /\ ret.reward = 1
            ELSE CanWin(s2, n - 1)

\* C18: every episode is winnable: from every state reset() produces there
\* is a sequence of grid_size-1 actions in {0,1,2} whose final update
\* returns reward +1.
C18_Winnable ==
    Fresh => CanWin(state, grid_size - 1)

C18_Witness ==
    /\ Updated /\ result.status = "ok" /\ result.reward = 1
    /\ steps = grid_size - 1
    /\ grid_size > MinGrid
    /\ drawn = <<grid_size - 2, 1>>
    /\ result.action \in {0, 1, 2}

\* C19: an update call that fails with an error leaves the state as it was
\* before the call: either update returns its triple or (fruit_row,
\* fruit_col, basket_col) is unchanged.
C19_FailedUpdateKeepsState ==
    Updated => (result.status = "ok" \/ state = prev)

====
